---- MODULE Spec2Model ----
(***************************************************************************)
(* The lead-search request handler (app/routers/leads.py search_leads),    *)
(* the usage ledger (app/utils/cost_calculator.py), the result cache       *)
(* (app/services/result_cache.py) and the boundary of the filter pipeline  *)
(* (app/services/fast_lead_filter.py), as one state machine.               *)
(*                                                                         *)
(* Text values are sequences of one-character strings, so that strip(),    *)
(* int() and the f-string of the cache key are computed, not assumed.      *)
(* Time is counted in whole hours.                                         *)
(***************************************************************************)
EXTENDS Integers, Sequences, FiniteSets, TLC

\* ---------------------------------------------------------------- bounds
\* requests whose handler may be on the server at the same time
MaxInFlight == 2
\* requests accepted over a run
MaxRequests == 3
\* clock advances over a run
MaxTicks == 2
\* hours by which one clock advance moves time
TickHours == 24
\* posts in a fetched batch
MaxPosts == 3
\* keywords in a list handed to the scorer
MaxKeywords == 3
\* calls of filter_posts on one server
MaxCalls == 3

\* ------------------------------------------------------ program constants
MAX_RESULTS == 150
MAX_POSTS == 2250
POSTS_PER_RESULT == 15
MIN_RESULT_COUNT == 1
MAX_RESULT_COUNT == 150
DEFAULT_RESULTS_REMAINING == 150
DEFAULT_POSTS_REMAINING == 2250
refresh_interval_hours == 24
AI_RELEVANCE_THRESHOLD == 5

\* ------------------------------------------------------------------ text
\* Python's None for an Optional[str]: no text value has a multi-character element
None == <<"None">>

Digits == <<"0", "1", "2", "3", "4", "5", "6", "7", "8", "9">>

IsSpace(c) == c \in {" ", "\t", "\n"}

IsDigit(c) == \E i \in 1..10 : Digits[i] = c

DigitValue(c) == (CHOOSE i \in 1..10 : Digits[i] = c) - 1

RECURSIVE LStrip(_)
LStrip(s) == IF s = <<>> THEN s
             ELSE IF IsSpace(Head(s)) THEN LStrip(Tail(s)) ELSE s

RECURSIVE RStrip(_)
RStrip(s) == IF s = <<>> THEN s
             ELSE IF IsSpace(s[Len(s)]) THEN RStrip(SubSeq(s, 1, Len(s) - 1)) ELSE s

\* str.strip()
Strip(s) == RStrip(LStrip(s))

\* truth value of an Optional[str]: None and "" are false
Truthy(s) == s # None /\ s # <<>>

\* str(n) for n >= 0, as the f-string formats an int
RECURSIVE Str(_)
Str(n) == IF n < 10 THEN <<Digits[n + 1]>>
          ELSE Str(n \div 10) \o <<Digits[(n % 10) + 1]>>

RECURSIVE DecimalValue(_)
DecimalValue(s) == IF s = <<>> THEN 0
                   ELSE 10 * DecimalValue(SubSeq(s, 1, Len(s) - 1)) + DigitValue(s[Len(s)])

\* int(s) for the caller ids of the model (surrounding blanks are dropped, then
\* decimal digits); -1 stands for ValueError
ValueError == -1
ParseInt(s) == LET t == Strip(s)
               IN IF t # <<>> /\ \A i \in 1..Len(t) : IsDigit(t[i])
                  THEN DecimalValue(t)
                  ELSE ValueError

Min(a, b) == IF a < b THEN a ELSE b
Max(a, b) == IF a > b THEN a ELSE b

\* ---------------------------------------------------------- usage ledger
\* get_posts_to_scrape
GetPostsToScrape(result_count) == result_count * POSTS_PER_RESULT

\* the results-limit test of validate_user_limits
ResultsExceeded(user_results_used, requested_results) ==
    user_results_used + requested_results > MAX_RESULTS

\* the posts-limit test of validate_user_limits
PostsExceeded(user_posts_analyzed, posts_needed) ==
    user_posts_analyzed + posts_needed > MAX_POSTS

\* a ledger that asks only whether the account is over a limit already
LimitExceededAlreadyOver(user_results_used, user_posts_analyzed, requested_results) ==
    IF user_results_used > MAX_RESULTS THEN "results"
    ELSE IF user_posts_analyzed > MAX_POSTS THEN "posts"
    ELSE "valid"

\* which limit of validate_user_limits the request would exceed, if any
LimitExceeded(user_results_used, user_posts_analyzed, requested_results) ==
    IF ResultsExceeded(user_results_used, requested_results) THEN "results"
    ELSE IF PostsExceeded(user_posts_analyzed, GetPostsToScrape(requested_results))
    THEN "posts"
    ELSE "valid"

\* a report with the subtraction turned around
RemainingSignFlipped(cap, used) == used - cap

\* the figure validate_user_limits reports as remaining when it rejects
RemainingOnReject(cap, used) == cap - used

NoMessage == [kind |-> "valid", remaining |-> 0, max_results |-> 0, requested |-> 0]

\* validate_user_limits: the returned tuple, with error_message as the figures
\* the f-string prints
ValidateUserLimits(user_results_used, user_posts_analyzed, requested_results) ==
    LET posts_needed == GetPostsToScrape(requested_results)
        exceeded == LimitExceeded(user_results_used, user_posts_analyzed, requested_results)
    IN IF exceeded = "results"
       THEN [is_valid |-> FALSE,
             error_message |-> [kind |-> "results",
                                remaining |-> RemainingOnReject(MAX_RESULTS, user_results_used),
                                max_results |-> 0,
                                requested |-> requested_results],
             posts_needed |-> posts_needed,
             remaining_results |-> RemainingOnReject(MAX_RESULTS, user_results_used),
             remaining_posts |-> MAX_POSTS - user_posts_analyzed]
       ELSE IF exceeded = "posts"
       THEN [is_valid |-> FALSE,
             error_message |-> [kind |-> "posts",
                                remaining |-> RemainingOnReject(MAX_POSTS, user_posts_analyzed),
                                max_results |-> RemainingOnReject(MAX_POSTS, user_posts_analyzed) \div 15,
                                requested |-> requested_results],
             posts_needed |-> posts_needed,
             remaining_results |-> MAX_RESULTS - user_results_used,
             remaining_posts |-> RemainingOnReject(MAX_POSTS, user_posts_analyzed)]
       ELSE [is_valid |-> TRUE,
             error_message |-> NoMessage,
             posts_needed |-> posts_needed,
             remaining_results |-> MAX_RESULTS - (user_results_used + requested_results),
             remaining_posts |-> MAX_POSTS - (user_posts_analyzed + posts_needed)]

\* ---------------------------------------------------------- result cache
Underscore == <<"_">>

ALL_TIME == <<"a", "l", "l", "_", "t", "i", "m", "e">>

ANONYMOUS == <<"a", "n", "o", "n", "y", "m", "o", "u", "s">>

\* result_count = None of _generate_cache_key
NoCount == -1

\* a key built as when result_count is not passed
GenerateCacheKeyNoCount(query, business_type, time_range, user_id, result_count) ==
    query \o Underscore \o business_type \o Underscore \o time_range
          \o Underscore \o user_id

\* _generate_cache_key: the f-string of the parameters joined by "_"
GenerateCacheKey(query, business_type, time_range, user_id, result_count) ==
    IF result_count # NoCount
    THEN query \o Underscore \o business_type \o Underscore \o time_range
               \o Underscore \o user_id \o Underscore \o Str(result_count)
    ELSE query \o Underscore \o business_type \o Underscore \o time_range
               \o Underscore \o user_id

\* a staleness test that already fails at the end of the window
ExpiredAtWindow(age_hours) == age_hours >= refresh_interval_hours

\* the staleness test of get_cached_results
Expired(age_hours) == age_hours > refresh_interval_hours

Miss == [hit |-> FALSE, results |-> <<>>, age_hours |-> 0]

\* get_cached_results: the value returned for cache_key at time t
CachedResult(c, cache_key, t) ==
    IF cache_key \notin DOMAIN c THEN Miss
    ELSE IF Expired(t - c[cache_key].timestamp) THEN Miss
    ELSE [hit |-> TRUE, results |-> c[cache_key].results,
          age_hours |-> t - c[cache_key].timestamp]

\* get_cached_results: the cache it leaves (a stale entry is deleted)
CacheAfterGet(c, cache_key, t) ==
    IF cache_key \in DOMAIN c /\ Expired(t - c[cache_key].timestamp)
    THEN [k \in DOMAIN c \ {cache_key} |-> c[k]]
    ELSE c

\* cache_results: self.cache[cache_key] = (timestamp, results); for_count and
\* admitted are bookkeeping: the result_count the storing call was given and
\* the number of candidates the filter had admitted for these results
CacheAfterStore(c, cache_key, t, results, result_count, admitted) ==
    [k \in DOMAIN c \cup {cache_key} |->
        IF k = cache_key
        THEN [timestamp |-> t, results |-> results, for_count |-> result_count,
              admitted |-> admitted]
        ELSE c[k]]

\* ------------------------------------------------------- filter pipeline
\* A fetched post: its id, its title (None for a post whose title is not a
\* string) and the score lines 121-142 of _rule_based_filter compute for it.
Post(id, title, relevance_score) ==
    [id |-> id, title |-> title, relevance_score |-> relevance_score]

\* an admission that only asks for some relevance
AdmittedAnyScore(post) == post.relevance_score > 0

\* the admission test of _rule_based_filter
Admitted(post) == post.relevance_score >= AI_RELEVANCE_THRESHOLD

\* an ascending sort followed by reverse(): posts of equal score change places
RECURSIVE InsertBeforeTies(_, _)
InsertBeforeTies(sorted, post) ==
    IF sorted = <<>> THEN <<post>>
    ELSE IF Head(sorted).relevance_score > post.relevance_score
         THEN <<Head(sorted)>> \o InsertBeforeTies(Tail(sorted), post)
         ELSE <<post>> \o sorted

\* list.sort(key=relevance_score, reverse=True): stable, descending
RECURSIVE InsertByScore(_, _)
InsertByScore(sorted, post) ==
    IF sorted = <<>> THEN <<post>>
    ELSE IF Head(sorted).relevance_score >= post.relevance_score
         THEN <<Head(sorted)>> \o InsertByScore(Tail(sorted), post)
         ELSE <<post>> \o sorted

RECURSIVE SortByScore(_)
SortByScore(posts) ==
    IF posts = <<>> THEN <<>>
    ELSE InsertByScore(SortByScore(SubSeq(posts, 1, Len(posts) - 1)), posts[Len(posts)])

\* post.get("title", "").lower() raises when a title is not a string
RuleBasedFilterRaises(posts) == \E i \in 1..Len(posts) : posts[i].title = None

\* _rule_based_filter, when it does not raise
RuleBasedFilter(posts) == SortByScore(SelectSeq(posts, Admitted))

\* _create_leads_from_posts
CreateLeadsFromPosts(posts) ==
    [i \in 1..Len(posts) |->
        [title |-> posts[i].title, id |-> posts[i].id,
         ai_relevance_score |-> posts[i].relevance_score]]

\* a filter_posts whose score statistics take max() of an empty list
FilterPostsNoEmptyGuard(posts) ==
    IF RuleBasedFilterRaises(posts) \/ posts = <<>>
    THEN [leads |-> <<>>, raised |-> TRUE,
          metrics |-> [posts_analyzed |-> Len(posts), posts_filtered |-> 0]]
    ELSE [leads |-> CreateLeadsFromPosts(RuleBasedFilter(posts)), raised |-> FALSE,
          metrics |-> [posts_analyzed |-> Len(posts),
                       posts_filtered |-> Len(RuleBasedFilter(posts))]]

\* filter_posts: (leads, metrics); raised tells whether the except branch ran
FilterPosts(posts) ==
    IF RuleBasedFilterRaises(posts)
    THEN [leads |-> <<>>, raised |-> TRUE,
          metrics |-> [posts_analyzed |-> Len(posts), posts_filtered |-> 0]]
    ELSE [leads |-> CreateLeadsFromPosts(RuleBasedFilter(posts)), raised |-> FALSE,
          metrics |-> [posts_analyzed |-> Len(posts),
                       posts_filtered |-> Len(RuleBasedFilter(posts))]]

\* the leads of the filter passed on as they are
TruncateNothing(leads, result_count) == leads

\* leads[:result_count]
Truncate(leads, result_count) == SubSeq(leads, 1, Min(result_count, Len(leads)))

\* ------------------------------------------------------------ lexicons
\* the struggle indicators of _rule_based_filter
struggle_indicators ==
    {"any advice", "can not", "can't", "cannot", "customer acquisition", "declining",
     "desperate", "failing", "first client", "first customer", "frustrated",
     "getting clients", "help", "how to", "issue", "lead generation", "looking for",
     "losing", "lost", "need help", "no clients", "no customers", "overwhelmed", "problem",
     "struggling", "stuck", "trouble", "urgent", "what should"}

\* the stop words of AIEnhancer._extract_keywords
StopWords ==
    {"a", "an", "and", "are", "at", "be", "been", "being", "but", "by", "can", "cannot",
     "could", "did", "do", "does", "for", "had", "has", "have", "in", "is", "may", "might",
     "must", "of", "on", "or", "should", "the", "to", "was", "were", "will", "with", "would"}

\* AIEnhancer.struggle_indicators["high_urgency"]
high_urgency ==
    {"advice", "any advice", "can not", "can't", "cannot", "customer acquisition",
     "declining", "desperate", "failing", "first client", "first customer", "frustrated",
     "getting clients", "help", "how to", "issue", "lead generation", "looking for",
     "losing", "lost", "need help", "no clients", "no customers", "overwhelmed", "problem",
     "struggle", "struggling", "stuck", "trouble", "urgent", "what should"}

\* AIEnhancer.struggle_indicators["medium_urgency"]
medium_urgency ==
    {"challenging", "difficult", "few", "focusing on", "hard", "lack of", "low",
     "need more", "not enough", "slow", "tough", "trying to", "want to improve", "working on"}

\* AIEnhancer.struggle_indicators["business_keywords"]
generic_business_keywords ==
    {"advertising", "brand", "churn", "clients", "competition", "content", "conversion",
     "customers", "digital", "email", "growth", "leads", "market", "marketing", "online",
     "ppc", "pricing", "profit", "retention", "revenue", "sales", "seo", "social media",
     "website"}

\* AIEnhancer.success_story_patterns, one set of phrases per family
success_story_patterns ==
    <<{"arr", "earned $", "grew to $", "hit $", "made $", "mrr", "reached $", "revenue"},
      {"here's how i", "here's what worked", "my advice is", "try this",
        "what you should do"},
      {"i achieved", "i built", "i created", "i developed", "i grew", "i launched"},
      {"here's how", "here's my story", "here's what", "i want to tell", "let me share"},
      {"i will not promote", "no promotion", "not promoting"}>>

\* AIEnhancer.active_struggle_patterns, one set of phrases per family
active_struggle_patterns ==
    <<{"any advice", "can someone help", "how do i", "need help with", "what should i"},
      {"can't figure out", "i can't", "i need help", "i'm struggling", "stuck with"},
      {"advice needed", "any suggestions", "help me", "what should i do"}>>

\* the first keys of BUSINESS_KEYWORDS, in the order of the dict
BusinessNames ==
    <<"Gyms / Fitness Studios", "SaaS Companies", "E-commerce Stores", "Marketing Agencies">>

\* the first keys of INDUSTRY_KEYWORDS, in the order of the dict
IndustryNames ==
    <<"Fitness", "SaaS / Tech", "E-commerce", "Marketing & Advertising">>

\* BUSINESS_KEYWORDS.get(name, []), for the keys of BusinessNames
GetKeywordsForBusiness(name) ==
    IF name = "Gyms / Fitness Studios" THEN
        <<"gym", "fitness", "trainer", "workout", "members", "membership", "exercise",
           "personal training", "fitness studio", "gym owner", "fitness business",
           "personal trainer", "workout studio", "fitness center", "health club">>
    ELSE IF name = "SaaS Companies" THEN
        <<"saas", "software", "app", "application", "platform", "subscription", "mrr",
           "arr", "api", "dashboard", "tech", "startup", "software company", "web app",
           "mobile app", "cloud", "b2b", "enterprise", "integration", "automation">>
    ELSE IF name = "E-commerce Stores" THEN
        <<"ecommerce", "shopify", "amazon", "etsy", "store", "products", "inventory",
           "shipping", "retail", "online store", "dropshipping", "fulfillment",
           "merchandise", "marketplace", "seller", "vendor", "product catalog">>
    ELSE IF name = "Marketing Agencies" THEN
        <<"agency", "client", "campaign", "creative", "brand", "marketing", "seo", "ppc",
           "advertising", "digital marketing", "social media", "content marketing",
           "email marketing", "marketing agency", "ad agency", "creative agency",
           "marketing services">>
    ELSE <<>>

\* INDUSTRY_KEYWORDS.get(name, []), for the keys of IndustryNames
GetKeywordsForIndustry(name) ==
    IF name = "Fitness" THEN
        <<"fitness", "gym", "workout", "exercise", "training", "health", "wellness",
           "personal training", "fitness business", "gym owner", "fitness studio",
           "health club", "fitness center">>
    ELSE IF name = "SaaS / Tech" THEN
        <<"saas", "software", "tech", "technology", "app", "application", "platform",
           "startup", "software company", "tech company", "web app", "mobile app", "cloud",
           "b2b", "enterprise">>
    ELSE IF name = "E-commerce" THEN
        <<"ecommerce", "online store", "retail", "shopping", "products", "marketplace",
           "seller", "vendor", "shopify", "amazon", "etsy", "dropshipping", "fulfillment",
           "merchandise">>
    ELSE IF name = "Marketing & Advertising" THEN
        <<"marketing", "advertising", "agency", "digital marketing", "social media", "seo",
           "ppc", "content marketing", "email marketing", "brand", "campaign", "creative",
           "marketing agency">>
    ELSE <<>>

\* BUSINESS_MAPPINGS.get(business_type, {}).get("keywords", [])
MappingKeywords(business_type) ==
    IF business_type = "Gyms / Fitness Studios" THEN
        <<"gym", "fitness", "workout", "personal training", "fitness studio", "membership",
           "trainer", "exercise">>
    ELSE <<>>

\* Texts of posts: the title as its words, the phrases of the lexicons, of the
\* keywords and of the problem descriptions that occur in the lower-cased text
\* (the  in  tests of the scoring code), and whether re.search(r'\$\d+[k|m]?')
\* finds an amount in it.
Texts ==
  <<
   \* Struggling to get my first client for my gym, any advice?
   [title |-> <<"Struggling", "to", "get", "my", "first", "client", "for", "my", "gym,",
                "any", "advice?">>,
    mentions |-> {"?", "advice", "any advice", "client", "first client", "gym", "struggling"},
    currency |-> FALSE],
   \* How I grew my gym membership to $10k MRR - here's what worked
   [title |-> <<"How", "I", "grew", "my", "gym", "membership", "to", "$10k", "MRR", "-",
                "here's", "what", "worked">>,
    mentions |-> {"gym", "here's what", "here's what worked", "i grew", "members",
                  "membership", "mrr"},
    currency |-> TRUE],
   \* Nice weather for a run today
   [title |-> <<"Nice", "weather", "for", "a", "run", "today">>,
    mentions |-> {},
    currency |-> FALSE],
   \* Need help: gym membership is declining and I'm stuck
   [title |-> <<"Need", "help:", "gym", "membership", "is", "declining", "and", "I'm",
                "stuck">>,
    mentions |-> {"declining", "gym", "help", "members", "membership", "need", "need help",
                  "stuck"},
    currency |-> FALSE],
   \* My fitness studio has a problem with clients, any advice?
   [title |-> <<"My", "fitness", "studio", "has", "a", "problem", "with", "clients,", "any",
                "advice?">>,
    mentions |-> {"?", "advice", "any advice", "client", "clients", "fitness",
                  "fitness studio", "problem"},
    currency |-> FALSE],
   \* I will not promote. Desperate, stuck, failing and overwhelmed: I can't get customers, help me, how do I fix churn?
   [title |-> <<"I", "will", "not", "promote.", "Desperate,", "stuck,", "failing", "and",
                "overwhelmed:", "I", "can't", "get", "customers,", "help", "me,", "how",
                "do", "I", "fix", "churn?">>,
    mentions |-> {"?", "can't", "churn", "customers", "desperate", "failing", "help",
                  "help me", "how do i", "i can't", "i will not promote", "overwhelmed",
                  "stuck"},
    currency |-> FALSE],
   \* Our SaaS software app platform subscription hit $5k MRR
   [title |-> <<"Our", "SaaS", "software", "app", "platform", "subscription", "hit", "$5k",
                "MRR">>,
    mentions |-> {"app", "hit $", "mrr", "platform", "saas", "software", "subscription"},
    currency |-> TRUE],
   \* Made $3k revenue, I built it, here's how I did it - my advice is try this
   [title |-> <<"Made", "$3k", "revenue,", "I", "built", "it,", "here's", "how", "I", "did",
                "it", "-", "my", "advice", "is", "try", "this">>,
    mentions |-> {"advice", "here's how", "here's how i", "i built", "made $",
                  "my advice is", "revenue", "try this"},
    currency |-> TRUE],
   \* Struggling gym owner losing members, need help getting more clients: membership sales declining, any advice?
   [title |-> <<"Struggling", "gym", "owner", "losing", "members,", "need", "help",
                "getting", "more", "clients:", "membership", "sales", "declining,", "any",
                "advice?">>,
    mentions |-> {"?", "advice", "any advice", "client", "clients", "declining", "getting",
                  "gym", "gym owner", "help", "losing", "members", "membership", "more",
                  "need", "need help", "owner", "sales", "struggling"},
    currency |-> FALSE]
  >>

\* ------------------------------------------------------ scoring the posts
\* The scoring code asks of a text only which phrases occur in it (phrase in text).
\* A text is therefore kept as the set of the phrases of the lexicons that occur
\* in its lower-cased form, its  mentions.

\* the elements of a list
Range(list) == {list[i] : i \in 1..Len(list)}

\* sum(1 for x in list if x in text): repeated entries of the list count each time
CountIn(list, mentions) == Cardinality({i \in 1..Len(list) : list[i] \in mentions})

\* AIEnhancer._extract_keywords on the words of the problem description:
\* list(set(...)) of the words that are no stop words and longer than 2
ExtractKeywords(words) == {w \in Range(words) : w \notin StopWords /\ Len(w) > 2}

\* the relevance score of _rule_based_filter for one post: 3 per entry of
\* all_keywords = mapping keywords + enhanced keywords, 2 per struggle indicator,
\* 4 per enhanced keyword, 1 per word of the problem longer than 3
ScoreWithKeywords(text, problem_words, mapping_keywords) ==
    LET enhanced_keywords == ExtractKeywords(problem_words)
    IN 3 * (CountIn(mapping_keywords, text.mentions)
            + Cardinality(enhanced_keywords \cap text.mentions))
       + 2 * Cardinality(struggle_indicators \cap text.mentions)
       + 4 * Cardinality(enhanced_keywords \cap text.mentions)
       + Cardinality({i \in 1..Len(problem_words) :
                         Len(problem_words[i]) > 3 /\ problem_words[i] \in text.mentions})

\* the score when business_keywords is the list BUSINESS_MAPPINGS was written with
RelevanceScore(text, problem_words, business_type) ==
    ScoreWithKeywords(text, problem_words, MappingKeywords(business_type))

\* INDUSTRY_MAPPINGS.get(industry_type, {}).get("keywords", [])
IndustryMappingKeywords(industry_type) ==
    IF industry_type = "Fitness" THEN
        <<"gym", "fitness", "workout", "personal training", "fitness studio", "membership",
          "trainer", "exercise">>
    ELSE <<>>

\* lines 85-88: business_keywords after the extend. For a key of BUSINESS_MAPPINGS
\* it is the list object of the catalog itself, so the catalog holds it afterwards
ExtendedKeywords(catalog, business_type, industry_type) ==
    (IF business_type \in DOMAIN catalog THEN catalog[business_type] ELSE <<>>)
    \o (IF industry_type # "" THEN IndustryMappingKeywords(industry_type) ELSE <<>>)


\* _format_post: a fetched post before it is scored. text is the text of its
\* title, selftext the text of its body, which _format_post stores under the
\* key 'text'
RawPost(id, text, selftext) == [id |-> id, text |-> text, selftext |-> selftext]

\* post.selftext or "": an empty body
NoBody == [title |-> <<>>, mentions |-> {}, currency |-> FALSE]

\* post.get("content", ""): the body the filter reads, when the dict has the key
Content(post) == IF "content" \in DOMAIN post THEN post.content ELSE NoBody

\* f"{title} {content}", lower-cased: the text that is scored
ScoredText(post) ==
    [title |-> post.text.title,
     mentions |-> post.text.mentions \cup Content(post).mentions,
     currency |-> post.text.currency \/ Content(post).currency]

\* a post whose title is null
NoTitleText == [title |-> None, mentions |-> {}, currency |-> FALSE]

\* post["relevance_score"] = score, for every post of the batch
ScorePosts(posts, problem_words, business_type) ==
    [i \in 1..Len(posts) |->
        Post(posts[i].id, posts[i].text.title,
             RelevanceScore(ScoredText(posts[i]), problem_words, business_type))]

\* enhance_query raises when the problem description is no string: text.lower()
\* fails in _extract_keywords, and again in the fallback of the except branch
EnhanceQueryRaises(problem_description) == problem_description = None

\* the dicts of the batch after filter_posts: line 145 stores the score in
\* every post the loop reaches before it ends or raises
PostsAfterFilter(posts, problem_description, business_type) ==
    LET untitled == {i \in 1..Len(posts) : posts[i].text.title = None}
        reached == {i \in 1..Len(posts) : \A j \in untitled : i < j}
    IN IF EnhanceQueryRaises(problem_description) THEN posts
       ELSE [i \in 1..Len(posts) |->
               IF i \in reached
               THEN [id |-> posts[i].id, text |-> posts[i].text,
                     selftext |-> posts[i].selftext,
                     relevance_score |->
                         RelevanceScore(ScoredText(posts[i]), problem_description,
                                        business_type)]
               ELSE posts[i]]

\* a filter_posts whose try block starts after the setup
FilterRawPostsNoCatch(posts, problem_description, business_type) ==
    IF EnhanceQueryRaises(problem_description)
    THEN [leads |-> <<>>, raised |-> TRUE, propagated |-> TRUE,
          metrics |-> [posts_analyzed |-> Len(posts), posts_filtered |-> 0]]
    ELSE LET r == FilterPosts(ScorePosts(posts, problem_description, business_type))
         IN [leads |-> r.leads, raised |-> r.raised, propagated |-> FALSE,
             metrics |-> r.metrics]

\* filter_posts on fetched posts: the setup of _rule_based_filter, the scoring,
\* the admission, the ranking and the leads; propagated tells whether an
\* exception left filter_posts
FilterRawPosts(posts, problem_description, business_type) ==
    IF EnhanceQueryRaises(problem_description)
    THEN [leads |-> <<>>, raised |-> TRUE, propagated |-> FALSE,
          metrics |-> [posts_analyzed |-> Len(posts), posts_filtered |-> 0]]
    ELSE LET r == FilterPosts(ScorePosts(posts, problem_description, business_type))
         IN [leads |-> r.leads, raised |-> r.raised, propagated |-> FALSE,
             metrics |-> r.metrics]

\* ------------------------------------------------ AIEnhancer: the scores
\* a falsy business_type or industry_type: None or the empty string
NoSelection == ""

\* get_keywords_for_selection: the business wins over the industry
GetKeywordsForSelection(business, industry) ==
    IF business # NoSelection THEN GetKeywordsForBusiness(business)
    ELSE IF industry # NoSelection THEN GetKeywordsForIndustry(industry)
    ELSE <<>>

\* the patterns of all families found in the text: a pattern counts once per
\* family that lists it
RECURSIVE PatternsIn(_, _)
PatternsIn(families, mentions) ==
    IF families = <<>> THEN 0
    ELSE Cardinality(Head(families) \cap mentions) + PatternsIn(Tail(families), mentions)

\* _calculate_keyword_match: int() cuts the fraction of (matches / len) * 100;
\* the float product is the exact quotient cut, for every list of up to 30 keywords
CalculateKeywordMatch(text, keywords) ==
    IF Len(keywords) = 0 THEN 0
    ELSE Min(100, (100 * CountIn(keywords, text.mentions)) \div Len(keywords))

\* the sum of boosts and penalties of _calculate_struggle_detection, before it
\* is clamped
StruggleSum(text, improved) ==
    IF ~improved
    THEN 20 * Cardinality(high_urgency \cap text.mentions)
         + 10 * Cardinality(medium_urgency \cap text.mentions)
         + (IF "?" \in text.mentions THEN 15 ELSE 0)
    ELSE 25 * PatternsIn(active_struggle_patterns, text.mentions)
         + 15 * Cardinality(high_urgency \cap text.mentions)
         + 8 * Cardinality(medium_urgency \cap text.mentions)
         + (IF "?" \in text.mentions THEN 20 ELSE 0)
         - 30 * PatternsIn(success_story_patterns, text.mentions)
         - (IF text.currency THEN 25 ELSE 0)
         - (IF "i will not promote" \in text.mentions THEN 15 ELSE 0)

\* a struggle score capped at 100 only
CalculateStruggleDetectionNoFloor(text, improved) == Min(100, StruggleSum(text, improved))

\* _calculate_struggle_detection: min(100, score), and max(0, ...) where
\* penalties are subtracted
CalculateStruggleDetection(text, improved) ==
    IF ~improved THEN Min(100, StruggleSum(text, improved))
    ELSE Max(0, Min(100, StruggleSum(text, improved)))

\* calculate_business_relevance_score for a non-empty keyword list: the
\* percentage of keywords matched, plus 20 for 3 matches, 10 for 2, cut by int()
CalculateBusinessRelevanceScore(text, target_keywords) ==
    LET matches == CountIn(target_keywords, text.mentions)
        bonus == IF matches >= 3 THEN 20 ELSE IF matches >= 2 THEN 10 ELSE 0
    IN Min(100, (100 * matches) \div Len(target_keywords) + bonus)

\* _calculate_business_conflict_penalty: 15 for each of the first three other
\* categories with two or more keywords in the text
CalculateBusinessConflictPenalty(text, business_type, industry_type) ==
    LET all_businesses == IF business_type # NoSelection THEN BusinessNames
                          ELSE IndustryNames
        target == IF business_type # NoSelection THEN business_type ELSE industry_type
        IsOther(b) == b # target
        other_businesses == SelectSeq(all_businesses, IsOther)
        OtherKeywords(b) == IF business_type # NoSelection
                            THEN GetKeywordsForSelection(b, NoSelection)
                            ELSE GetKeywordsForSelection(NoSelection, b)
    IN IF target \in Range(all_businesses)
       THEN 15 * Cardinality({i \in 1..Min(3, Len(other_businesses)) :
                    CountIn(OtherKeywords(other_businesses[i]), text.mentions) >= 2})
       ELSE 0

\* _calculate_business_relevance
CalculateBusinessRelevance(text, business_type, industry_type, improved) ==
    IF ~improved
    THEN Min(100, 5 * Cardinality(generic_business_keywords \cap text.mentions))
    ELSE IF business_type = NoSelection /\ industry_type = NoSelection THEN 0
    ELSE LET target_keywords == GetKeywordsForSelection(business_type, industry_type)
         IN IF target_keywords = <<>> THEN 0
            ELSE Min(100, Max(0,
                     CalculateBusinessRelevanceScore(text, target_keywords)
                     - CalculateBusinessConflictPenalty(text, business_type,
                                                        industry_type)))

\* _determine_urgency_level
DetermineUrgencyLevel(text) ==
    LET high_urgency_count == Cardinality(high_urgency \cap text.mentions)
        medium_urgency_count == Cardinality(medium_urgency \cap text.mentions)
    IN IF high_urgency_count >= 2 THEN "High"
       ELSE IF high_urgency_count >= 1 \/ medium_urgency_count >= 2 THEN "Medium"
       ELSE "Low"

\* int(k * 0.3 + s * 0.6 + b * 0.1), or with the weights 0.4, 0.4, 0.2: the
\* weighted sum cut to a whole number. The weights are binary floating point
\* numbers, so a sum that is a whole number exactly may come out just below it
\* and be cut to the number before; both outcomes are kept.
OverallScores(keyword_score, struggle_score, business_score, improved) ==
    LET tenths == IF improved
                  THEN 3 * keyword_score + 6 * struggle_score + business_score
                  ELSE 4 * keyword_score + 4 * struggle_score + 2 * business_score
    IN {tenths \div 10}
       \cup (IF tenths % 10 = 0 /\ tenths > 0 THEN {tenths \div 10 - 1} ELSE {})

\* the RelevanceScore of the except branch
ZeroScore ==
    [overall_score |-> 0, keyword_match |-> 0, struggle_detection |-> 0,
     business_relevance |-> 0, urgency_level |-> "Low"]

\* analyze_post_relevance: the RelevanceScore objects it can return; a post that
\* is no dict makes post.get raise, and the except branch answers ZeroScore
AnalyzePostRelevance(post, keywords, business_type, industry_type, improved) ==
    IF ~post.is_dict THEN {ZeroScore}
    ELSE LET keyword_score == CalculateKeywordMatch(post.text, keywords)
             struggle_score == CalculateStruggleDetection(post.text, improved)
             business_score == CalculateBusinessRelevance(post.text, business_type,
                                                          industry_type, improved)
         IN {[overall_score |-> overall_score, keyword_match |-> keyword_score,
              struggle_detection |-> struggle_score,
              business_relevance |-> business_score,
              urgency_level |-> DetermineUrgencyLevel(post.text)] :
                overall_score \in OverallScores(keyword_score, struggle_score,
                                                business_score, improved)}

\* --------------------------------------------------- fallback summaries
\* Cleaned titles handed to _create_simple_varied_summary: the title, those of
\* the words the summary code looks for that occur in the lower-cased title, and
\* what _extract_numbers returns for it ("" for None).
SummaryTitles ==
  <<[title |-> "How I grew my gym membership to $10k MRR - here's what worked",
     contains |-> {}, numbers |-> ""],
    [title |-> "Struggling to get my first client for my gym, any advice?",
     contains |-> {"first", "struggling"}, numbers |-> ""],
    [title |-> "Need help getting my first 100 users",
     contains |-> {"first", "help", "user"}, numbers |-> "their first 100 users"],
    [title |-> "Nice weather for a run today",
     contains |-> {}, numbers |-> ""],
    [title |-> "Just launched my startup",
     contains |-> {"launch", "launched", "startup"}, numbers |-> ""]>>

\* _extract_specific_problems
ExtractSpecificProblems(t) ==
    IF "marketing" \in t.contains THEN "marketing and customer acquisition"
    ELSE IF "conversion" \in t.contains THEN "conversion optimization"
    ELSE IF "feedback" \in t.contains THEN "user feedback and validation"
    ELSE IF "adoption" \in t.contains THEN "user adoption and engagement"
    ELSE IF "traffic" \in t.contains THEN "traffic generation"
    ELSE IF "sales" \in t.contains THEN "sales and revenue generation"
    ELSE IF "scaling" \in t.contains \/ "scale" \in t.contains THEN "scaling and growth"
    ELSE "customer acquisition"

\* _extract_stage ("" for None)
ExtractStage(t) ==
    IF "launch" \in t.contains \/ "launched" \in t.contains THEN "early launch"
    ELSE IF "beta" \in t.contains \/ "trial" \in t.contains THEN "beta testing"
    ELSE IF "first" \in t.contains /\ ("user" \in t.contains \/ "customer" \in t.contains)
         THEN "initial user acquisition"
    ELSE IF "startup" \in t.contains THEN "startup"
    ELSE ""

\* _get_business_term(business_context).title()
BusinessTermTitle(business_context) ==
    IF business_context = "Gyms / Fitness Studios" THEN "Fitness Business Owner"
    ELSE "Business Owner"

\* the title matches none of the patterns: the template is chosen by the hash
ReachesFallback(t) ==
    /\ ~("first" \in t.contains /\ t.numbers # "")
    /\ "struggling" \notin t.contains
    /\ ~("help" \in t.contains /\ t.numbers # "")
    /\ t.contains \cap {"feedback", "launch", "launched", "marketing", "trial", "beta",
                        "grow", "scale"} = {}
    /\ ExtractStage(t) = ""

\* _create_simple_varied_summary, with title_hash = hash(title) % 3
CreateSimpleVariedSummary(t, business_term, title_hash) ==
    IF "first" \in t.contains /\ t.numbers # ""
    THEN business_term \o " seeking " \o t.numbers \o " for initial validation and feedback"
    ELSE IF "struggling" \in t.contains /\ ExtractSpecificProblems(t) # ""
    THEN business_term \o " facing " \o ExtractSpecificProblems(t)
                       \o " challenges, seeking solutions"
    ELSE IF "help" \in t.contains /\ t.numbers # ""
    THEN business_term \o " looking for assistance to reach " \o t.numbers
    ELSE IF "feedback" \in t.contains
    THEN business_term \o " requesting feedback and user validation"
    ELSE IF "launch" \in t.contains \/ "launched" \in t.contains
    THEN business_term \o " recently launched and seeking initial traction"
    ELSE IF "marketing" \in t.contains
    THEN business_term \o " struggling with marketing and customer acquisition"
    ELSE IF ExtractStage(t) # ""
    THEN business_term \o " at " \o ExtractStage(t) \o " stage, seeking growth strategies"
    ELSE IF "trial" \in t.contains \/ "beta" \in t.contains
    THEN business_term \o " looking for beta users and early adopters"
    ELSE IF "grow" \in t.contains \/ "scale" \in t.contains
    THEN business_term \o " looking to grow and scale their business"
    ELSE IF title_hash = 0
    THEN business_term \o " seeking advice and guidance for business growth"
    ELSE IF title_hash = 1
    THEN business_term \o " looking for solutions to current challenges"
    ELSE business_term \o " requesting help with business development"

\* ---------------------------------------------------------------- inputs
FITNESS == <<"F", "i", "t", "n", "e", "s", "s">>

PETS == <<"P", "e", "t", "s">>

\* the categories of SIMPLIFIED_SUBREDDIT_MAPPINGS used here, with their primary lists
GetBetaSubreddits(business_type) ==
    IF business_type = FITNESS
    THEN <<"FitnessBusiness", "GymOwners", "PersonalTraining">>
    ELSE <<>>

CRM == <<"c", "r", "m">>

UserIds == {None, <<"1">>, <<"7">>, <<"x">>}

Request(text, business, industry, user_id, result_count) ==
    [problem_description |-> text, business |-> business, industry |-> industry,
     user_id |-> user_id, result_count |-> result_count]

\* requests that pass the validation: every caller asks a known business for 5
\* results, the account holder also for 145, also by industry, also of an
\* unknown business
ValidRequests ==
    {Request(CRM, FITNESS, None, u, 5) : u \in UserIds}
    \cup {Request(CRM, FITNESS, None, <<"1">>, 145),
          Request(CRM, None, FITNESS, <<"1">>, 5), Request(CRM, PETS, None, <<"1">>, 5)}

\* requests with one field wrong
InvalidRequests ==
    {Request(<<>>, FITNESS, None, <<"1">>, 5), Request(<<" ">>, FITNESS, None, <<"1">>, 5),
     Request(CRM, None, None, <<"1">>, 5), Request(CRM, <<>>, None, <<"1">>, 5),
     Request(CRM, FITNESS, FITNESS, <<"1">>, 5),
     Request(CRM, FITNESS, None, <<"1">>, 0), Request(CRM, FITNESS, None, <<"1">>, 151),
     Request(CRM, FITNESS, None, None, 200)}

Requests == ValidRequests \cup InvalidRequests

\* the rows of the users table
AccountIds == {1}

TITLE == <<"h", "e", "l", "p">>

GoodBatch == <<Post(1, TITLE, 9), Post(2, TITLE, 4), Post(3, TITLE, 12), Post(4, TITLE, 9),
               Post(5, TITLE, 5), Post(6, TITLE, 30), Post(7, TITLE, 7)>>

MalformedBatch == <<Post(1, TITLE, 9), Post(2, None, 0)>>

\* what fetch_posts_from_multiple_subreddits may return (empty: every source failed)
FetchedBatches == {<<>>, GoodBatch, MalformedBatch}

\* ----------------------------------------------------------------- state
VARIABLES
    users,      \* the users table: account id -> results_used, posts_analyzed
    cache,      \* result_cache.cache: cache key -> (timestamp, results)
    now,        \* time.time(), in hours
    req,        \* the handlers on the server: slot -> request, locals, response
    waiting,    \* requests accepted whose handler has not started yet
    prev,       \* what the last handler did while the oldest waiting request waited
    accepted,   \* requests accepted so far
    ticks,      \* clock advances so far
    committed,  \* per account, the requested counts and posts_needed of its commits
    call        \* one call of a function of the pipeline: its arguments and its result

vars == <<users, cache, now, req, waiting, prev, accepted, ticks, committed, call>>

Slots == 1..MaxInFlight

\* no row: db.query(User)...first() returned None
NoRow == [id |-> 0, results_used |-> 0, posts_analyzed |-> 0]

NoDetail == [kind |-> "none", remaining |-> 0, max_results |-> 0, requested |-> 0]

ErrorDetail(kind) == [kind |-> kind, remaining |-> 0, max_results |-> 0, requested |-> 0]

NoLimits == [is_valid |-> TRUE, error_message |-> NoMessage, posts_needed |-> 0,
             remaining_results |-> 0, remaining_posts |-> 0]

\* bookkeeping: no handler ran while the oldest waiting request waited
NoPrev == [account |-> 0, key |-> None]

\* self.cache = {}
EmptyCache == [k \in {} |-> 0]

\* no function is called apart from the handlers
NoCall == [op |-> "none"]

IdleReq ==
    [pc |-> "idle", problem_description |-> <<>>, business |-> None, industry |-> None,
     user_id |-> None, result_count |-> 0,
     posts_needed |-> 0, results_remaining |-> 0, posts_remaining |-> 0,
     user |-> NoRow, limits |-> NoLimits, subreddits |-> <<>>,
     leads |-> <<>>, result_age_hours |-> 0, cached |-> FALSE, raised |-> FALSE,
     admitted |-> 0,
     status |-> 0, detail |-> NoDetail, did |-> {}, commits |-> 0,
     overlap_commit |-> FALSE, overlap_store |-> FALSE]

Init ==
    /\ users = [a \in AccountIds |-> [results_used |-> 0, posts_analyzed |-> 0]]
    /\ cache = EmptyCache
    /\ now = 0
    /\ req = [s \in Slots |-> IdleReq]
    /\ waiting = 0
    /\ prev = NoPrev
    /\ accepted = 0
    /\ ticks = 0
    /\ committed = [a \in AccountIds |-> [results |-> 0, posts |-> 0]]
    /\ call = NoCall

\* handlers run side by side, as those of a plain def endpoint do in the threadpool
RunsInThreadpool == FALSE

\* search_leads is a coroutine without an await: once started on the event loop,
\* a handler runs to its return before any other handler runs
RunsToCompletion == TRUE

\* the handler of slot s has started and its response is not sent yet
Executing(s) == req[s].pc # "idle"

CanRun(s) == RunsToCompletion => \A t \in Slots \ {s} : ~Executing(t)

\* a query without the filter on the id: the first row of the table
LookupUserAnyRow(table, id) ==
    LET first == CHOOSE a \in DOMAIN table : \A b \in DOMAIN table : a <= b
    IN [id |-> first, results_used |-> table[first].results_used,
        posts_analyzed |-> table[first].posts_analyzed]

\* db.query(User).filter(User.id == id).first()
LookupUser(table, id) ==
    IF id \in DOMAIN table
    THEN [id |-> id, results_used |-> table[id].results_used,
          posts_analyzed |-> table[id].posts_analyzed]
    ELSE NoRow

\* a validation without the range check of result_count
ValidationErrorNoRange(r) ==
    IF ~Truthy(r.business) /\ ~Truthy(r.industry)
    THEN "Either business or industry must be selected"
    ELSE IF Truthy(r.business) /\ Truthy(r.industry)
    THEN "Cannot select both business and industry"
    ELSE IF Strip(r.problem_description) = <<>>
    THEN "Problem description is required"
    ELSE ""

\* the checks of lines 78-90, in order; "" when the request is valid
ValidationError(r) ==
    IF ~Truthy(r.business) /\ ~Truthy(r.industry)
    THEN "Either business or industry must be selected"
    ELSE IF Truthy(r.business) /\ Truthy(r.industry)
    THEN "Cannot select both business and industry"
    ELSE IF Strip(r.problem_description) = <<>>
    THEN "Problem description is required"
    ELSE IF r.result_count < MIN_RESULT_COUNT \/ r.result_count > MAX_RESULT_COUNT
    THEN "Result count must be between 1 and 150"
    ELSE ""

\* request.business or request.industry
BusinessType(r) == IF Truthy(r.business) THEN r.business ELSE r.industry

\* request.user_id or "anonymous"
CacheUser(r) == IF Truthy(r.user_id) THEN r.user_id ELSE ANONYMOUS

\* the key search_leads passes to both get_cached_results and cache_results
RequestKey(r) ==
    GenerateCacheKey(r.problem_description, BusinessType(r), ALL_TIME,
                     CacheUser(r), r.result_count)

\* a commit that charges the leads returned
DeductedReturned(r) == Len(r.leads)

\* what the commit adds to results_used: the requested count
DeductedResults(r) == r.result_count

\* a commit that charges the posts of the leads returned
DeductedPostsReturned(r) == Len(r.leads) * POSTS_PER_RESULT

\* what the commit adds to posts_analyzed: posts_needed
DeductedPosts(r) == r.posts_needed

\* the row the commit updates: the object the session loaded at the quota check
\* if there is one (the identity map returns it, attributes as loaded), else the
\* row as queried now
CommitRow(r, table) ==
    IF r.user.id # 0 THEN r.user ELSE LookupUser(table, ParseInt(r.user_id))

\* --------------------------------------------------------------- actions
\* a request reaches the server and waits for the event loop
Accept ==
    /\ accepted < MaxRequests
    /\ waiting + Cardinality({s \in Slots : Executing(s)}) < MaxInFlight
    /\ accepted' = accepted + 1
    /\ waiting' = waiting + 1
    /\ UNCHANGED <<users, cache, now, req, prev, ticks, committed, call>>

\* the handler of the oldest waiting request starts: search_leads is called with
\* its body. overlap_commit and overlap_store are bookkeeping: the handler that
\* ran while this request waited updated this caller's account, stored this key
Start(s) ==
    /\ waiting > 0
    /\ ~Executing(s)
    /\ \A t \in Slots : t < s => Executing(t)
    /\ CanRun(s)
    /\ \E request \in Requests :
         req' = [req EXCEPT ![s] = [IdleReq EXCEPT
                    !.pc = "validate",
                    !.problem_description = request.problem_description,
                    !.business = request.business, !.industry = request.industry,
                    !.user_id = request.user_id, !.result_count = request.result_count,
                    !.overlap_commit =
                        Truthy(request.user_id) /\ prev.account # 0
                        /\ ParseInt(request.user_id) = prev.account,
                    !.overlap_store = (prev.key = RequestKey(request))]]
    /\ waiting' = waiting - 1
    /\ prev' = NoPrev
    /\ UNCHANGED <<users, cache, now, accepted, ticks, committed, call>>

\* lines 78-95: the validation, then the defaults and posts_needed
Validate(s) ==
    /\ req[s].pc = "validate"
    /\ CanRun(s)
    /\ LET r == req[s]
       IN IF ValidationError(r) # ""
          THEN req' = [req EXCEPT ![s] = [r EXCEPT
                          !.pc = "done", !.status = 400,
                          !.detail = ErrorDetail(ValidationError(r))]]
          ELSE req' = [req EXCEPT ![s] = [r EXCEPT
                          !.pc = "quota",
                          !.results_remaining = DEFAULT_RESULTS_REMAINING,
                          !.posts_remaining = DEFAULT_POSTS_REMAINING,
                          !.posts_needed = GetPostsToScrape(r.result_count)]]
    /\ UNCHANGED <<users, cache, now, waiting, prev, accepted, ticks, committed, call>>

\* a quota block whose except clause is as wide as that of the handler's body
QuotaBlockCatchesAll == {"ValueError", "TypeError", "HTTPException"}

\* line 111: the exceptions the try around the quota check swallows
QuotaBlockCatches == {"ValueError", "TypeError"}

\* lines 97-113: the quota check of a caller that has an account
CheckQuota(s) ==
    /\ req[s].pc = "quota"
    /\ CanRun(s)
    /\ LET r == req[s]
           id == ParseInt(r.user_id)
           user == LookupUser(users, id)
           limits == ValidateUserLimits(user.results_used, user.posts_analyzed, r.result_count)
           q == [r EXCEPT !.did = @ \cup {"quota"}]
       IN IF ~Truthy(r.user_id) \/ id = ValueError \/ user = NoRow
          THEN req' = [req EXCEPT ![s] = [q EXCEPT !.pc = "lookup"]]
          ELSE IF ~limits.is_valid /\ "HTTPException" \in QuotaBlockCatches
          THEN req' = [req EXCEPT ![s] = [q EXCEPT
                          !.pc = "lookup", !.user = user, !.limits = limits]]
          ELSE IF ~limits.is_valid
          THEN req' = [req EXCEPT ![s] = [q EXCEPT
                          !.pc = "done", !.user = user, !.limits = limits,
                          !.status = 400, !.detail = limits.error_message]]
          ELSE req' = [req EXCEPT ![s] = [q EXCEPT
                          !.pc = "lookup", !.user = user, !.limits = limits,
                          !.results_remaining = limits.remaining_results,
                          !.posts_remaining = limits.remaining_posts]]
    /\ UNCHANGED <<users, cache, now, waiting, prev, accepted, ticks, committed, call>>

\* lines 115-144 and get_cached_results up to its membership test
Lookup(s) ==
    /\ req[s].pc = "lookup"
    /\ CanRun(s)
    /\ LET r == req[s]
           q == [r EXCEPT !.subreddits = GetBetaSubreddits(BusinessType(r)),
                          !.did = @ \cup {"lookup"}]
       IN IF RequestKey(q) \notin DOMAIN cache
          THEN req' = [req EXCEPT ![s] = [q EXCEPT !.pc = "fresh"]]
          ELSE req' = [req EXCEPT ![s] = [q EXCEPT !.pc = "lookup_read"]]
    /\ UNCHANGED <<users, cache, now, waiting, prev, accepted, ticks, committed, call>>

\* get_cached_results from the read of the entry on, and lines 146-157
LookupRead(s) ==
    /\ req[s].pc = "lookup_read"
    /\ CanRun(s)
    /\ LET r == req[s]
           key == RequestKey(r)
           got == CachedResult(cache, key, now)
       IN IF key \notin DOMAIN cache
          THEN /\ req' = [req EXCEPT ![s] = [r EXCEPT
                              !.pc = "done", !.status = 500,
                              !.detail = ErrorDetail("KeyError")]]
               /\ cache' = cache
          ELSE /\ cache' = CacheAfterGet(cache, key, now)
               /\ IF got.hit
                  THEN req' = [req EXCEPT ![s] = [r EXCEPT
                                  !.pc = "commit", !.cached = TRUE,
                                  !.leads = got.results,
                                  !.admitted = cache[key].admitted,
                                  !.result_age_hours = got.age_hours]]
                  ELSE req' = [req EXCEPT ![s] = [r EXCEPT !.pc = "fresh"]]
    /\ UNCHANGED <<users, now, waiting, prev, accepted, ticks, committed, call>>

\* line 160 with no subreddit: the division raises, the handler answers 500
FreshNoSubreddits(s) ==
    /\ req[s].pc = "fresh"
    /\ CanRun(s)
    /\ Len(req[s].subreddits) = 0
    /\ req' = [req EXCEPT ![s] = [@ EXCEPT
                  !.pc = "done", !.status = 500,
                  !.detail = ErrorDetail("ZeroDivisionError")]]
    /\ UNCHANGED <<users, cache, now, waiting, prev, accepted, ticks, committed, call>>

\* lines 160-189: fetch, filter_posts, truncation, cache_results
Fresh(s) ==
    /\ req[s].pc = "fresh"
    /\ CanRun(s)
    /\ Len(req[s].subreddits) > 0
    /\ \E posts \in FetchedBatches :
         LET r == req[s]
             out == FilterPosts(posts)
             target_leads == Truncate(out.leads, r.result_count)
         IN /\ cache' = CacheAfterStore(cache, RequestKey(r), now, target_leads,
                                         r.result_count, out.metrics.posts_filtered)
            /\ prev' = IF waiting > 0 THEN [prev EXCEPT !.key = RequestKey(r)] ELSE prev
            /\ req' = [req EXCEPT ![s] = [r EXCEPT
                          !.pc = "commit", !.leads = target_leads,
                          !.admitted = out.metrics.posts_filtered,
                          !.result_age_hours = 0, !.raised = out.raised,
                          !.did = @ \cup {"fetch", "store"}]]
    /\ UNCHANGED <<users, now, waiting, accepted, ticks, committed, call>>

\* lines 208-234: the usage update of a caller that has an account
Commit(s) ==
    /\ req[s].pc = "commit"
    /\ CanRun(s)
    /\ LET r == req[s]
           id == ParseInt(r.user_id)
           user == CommitRow(r, users)
       IN IF ~Truthy(r.user_id)
          THEN /\ req' = [req EXCEPT ![s] = [r EXCEPT !.pc = "respond"]]
               /\ UNCHANGED <<users, committed, prev>>
          ELSE IF id = ValueError \/ user = NoRow
          THEN /\ req' = [req EXCEPT ![s] = [r EXCEPT
                              !.pc = "respond",
                              !.results_remaining = DEFAULT_RESULTS_REMAINING,
                              !.posts_remaining = DEFAULT_POSTS_REMAINING]]
               /\ UNCHANGED <<users, committed, prev>>
          ELSE /\ users' = [users EXCEPT ![user.id] =
                              [results_used |-> user.results_used + DeductedResults(r),
                               posts_analyzed |-> user.posts_analyzed + DeductedPosts(r)]]
               /\ committed' = [committed EXCEPT ![user.id] =
                              [results |-> @.results + r.result_count,
                               posts |-> @.posts + r.posts_needed]]
               /\ prev' = IF waiting > 0 THEN [prev EXCEPT !.account = user.id] ELSE prev
               /\ req' = [req EXCEPT ![s] = [r EXCEPT
                              !.pc = "respond", !.commits = @ + 1,
                              !.did = @ \cup {"commit"},
                              !.results_remaining = 150 - users'[user.id].results_used,
                              !.posts_remaining = 2250 - users'[user.id].posts_analyzed]]
    /\ UNCHANGED <<cache, now, waiting, accepted, ticks, call>>

\* lines 236-295: the audit row and the response
Respond(s) ==
    /\ req[s].pc = "respond"
    /\ CanRun(s)
    /\ req' = [req EXCEPT ![s] = [@ EXCEPT
                  !.pc = "done", !.status = 200, !.did = @ \cup {"metrics"}]]
    /\ UNCHANGED <<users, cache, now, waiting, prev, accepted, ticks, committed, call>>

\* the response has been sent: the handler is gone
Finish(s) ==
    /\ req[s].pc = "done"
    /\ req' = [req EXCEPT ![s] = IdleReq]
    /\ UNCHANGED <<users, cache, now, waiting, prev, accepted, ticks, committed, call>>

\* time passes; the clock counts hours and a handler runs for seconds, so the
\* clock moves between handlers
Tick ==
    /\ ticks < MaxTicks
    /\ \A s \in Slots : ~Executing(s)
    /\ ticks' = ticks + 1
    /\ now' = now + TickHours
    /\ UNCHANGED <<users, cache, req, waiting, prev, accepted, committed, call>>

Next ==
    \/ Accept
    \/ Tick
    \/ \E s \in Slots : Start(s)
    \/ \E s \in Slots : Validate(s)
    \/ \E s \in Slots : CheckQuota(s)
    \/ \E s \in Slots : Lookup(s)
    \/ \E s \in Slots : LookupRead(s)
    \/ \E s \in Slots : FreshNoSubreddits(s)
    \/ \E s \in Slots : Fresh(s)
    \/ \E s \in Slots : Commit(s)
    \/ \E s \in Slots : Respond(s)
    \/ \E s \in Slots : Finish(s)

Spec == Init /\ [][Next]_vars

\* ------------------------------------------------- the quota check alone
\* validate_user_limits is a function of two counters and the requested count:
\* SpecLimits runs the handler up to the quota check from rows with any usage
UsageRows ==
    {[results_used |-> ru, posts_analyzed |-> pa] :
        ru \in {0, 145, 150}, pa \in {0, 2175, 2200, 2250}}

InitLimits ==
    /\ users \in [AccountIds -> UsageRows]
    /\ cache = EmptyCache
    /\ now = 0
    /\ req = [s \in Slots |-> IdleReq]
    /\ waiting = 0
    /\ prev = NoPrev
    /\ accepted = 0
    /\ ticks = 0
    /\ committed = [a \in AccountIds |-> [results |-> 0, posts |-> 0]]
    /\ call = NoCall

NextLimits ==
    \/ Accept
    \/ \E s \in Slots : Start(s)
    \/ \E s \in Slots : Validate(s)
    \/ \E s \in Slots : CheckQuota(s)
    \/ \E s \in Slots : Finish(s)

SpecLimits == InitLimits /\ [][NextLimits]_vars

\* ------------------------------------------------------ filter_posts alone
\* filter_posts is a function of the batch, the problem description and the
\* business type: SpecPipeline calls it once on every batch of the pool

\* the handlers' state while a function is called on its own
Quiet ==
    /\ users = [a \in AccountIds |-> [results_used |-> 0, posts_analyzed |-> 0]]
    /\ cache = EmptyCache
    /\ now = 0
    /\ req = [s \in Slots |-> IdleReq]
    /\ waiting = 0
    /\ prev = NoPrev
    /\ accepted = 0
    /\ ticks = 0
    /\ committed = [a \in AccountIds |-> [results |-> 0, posts |-> 0]]

handlerVars == <<users, cache, now, req, waiting, prev, accepted, ticks, committed>>

\* the posts a fetch can return: the first six texts as titles of posts without
\* a body, a post without a title, a post that says in its body what the fourth
\* says in its title, and the ninth text as a title
PostPool ==
    {RawPost(i, Texts[i], NoBody) : i \in 1..6}
    \cup {RawPost(7, NoTitleText, NoBody), RawPost(8, Texts[3], Texts[4]),
          RawPost(9, Texts[9], NoBody)}

\* the batches of at most MaxPosts different posts, in every order
Batches ==
    UNION {{b \in [1..n -> PostPool] : \A i, j \in 1..n : i # j => b[i].id # b[j].id} :
              n \in 0..MaxPosts}

\* problem descriptions as their lower-cased words, one of them the words of the
\* ninth text; None is one that is no string
ProblemDescriptions ==
    {<<"need", "more", "clients">>, <<"grow">>,
     <<"struggling", "gym", "owner", "losing", "members", "need", "help", "getting",
       "more", "clients", "membership", "sales", "declining">>,
     None}

\* a business type with keywords in BUSINESS_MAPPINGS and one without
BusinessTypes == {"Gyms / Fitness Studios", "Fitness"}

NoResult == [leads |-> <<>>, raised |-> FALSE, propagated |-> FALSE,
             metrics |-> [posts_analyzed |-> 0, posts_filtered |-> 0]]

InitPipeline ==
    /\ Quiet
    /\ call \in {[op |-> "filter_posts", posts |-> b, problem_description |-> p,
                  business_type |-> c, done |-> FALSE, result |-> NoResult,
                  post_dicts |-> b] :
                    b \in Batches, p \in ProblemDescriptions, c \in BusinessTypes}

RunFilterPosts ==
    /\ call.op = "filter_posts" /\ ~call.done
    /\ call' = [call EXCEPT !.done = TRUE,
                            !.result = FilterRawPosts(call.posts, call.problem_description,
                                                      call.business_type),
                            !.post_dicts = PostsAfterFilter(call.posts,
                                              call.problem_description,
                                              call.business_type)]
    /\ UNCHANGED handlerVars

NextPipeline == RunFilterPosts

SpecPipeline == InitPipeline /\ [][NextPipeline]_vars

\* ------------------------------------------- analyze_post_relevance alone
\* the posts handed to the scorer: the texts as dicts with a title, and a post
\* that is no dict
ScorerPosts ==
    {[is_dict |-> TRUE, text |-> Texts[i]] : i \in 1..Len(Texts)}
    \cup {[is_dict |-> FALSE, text |-> NoTitleText]}

\* the keywords a caller may supply
KeywordPool == {"gym", "clients", "advice", "xyz"}

\* keyword lists, repetitions included
KeywordLists == UNION {[1..n -> KeywordPool] : n \in 0..MaxKeywords}

\* categories: none, catalogued ones, one without keywords
ScorerBusinessTypes == {NoSelection, "Gyms / Fitness Studios", "SaaS Companies", "Pets"}

ScorerIndustryTypes == {NoSelection, "Fitness"}

InitScorer ==
    /\ Quiet
    /\ \E post \in ScorerPosts, keywords \in KeywordLists,
          business_type \in ScorerBusinessTypes, industry_type \in ScorerIndustryTypes,
          improved \in BOOLEAN :
         call = [op |-> "analyze_post_relevance", done |-> FALSE, post |-> post,
                 keywords |-> keywords, business_type |-> business_type,
                 industry_type |-> industry_type, use_improved_scoring |-> improved,
                 result |-> ZeroScore]

\* one call of analyze_post_relevance
RunAnalyzePostRelevance ==
    /\ call.op = "analyze_post_relevance"
    /\ ~call.done
    /\ \E result \in AnalyzePostRelevance(call.post, call.keywords, call.business_type,
                                          call.industry_type, call.use_improved_scoring) :
         call' = [call EXCEPT !.done = TRUE, !.result = result]
    /\ UNCHANGED handlerVars

NextScorer == RunAnalyzePostRelevance

SpecScorer == InitScorer /\ [][NextScorer]_vars

\* ------------------------------------ _create_simple_varied_summary alone
\* the server processes that summarise: each is started as its own interpreter
Processes == {"server 1", "server 2"}

\* hash(title) has not been computed in this process
NotHashed == -1

\* hash(title) % 3 in process p: the hash of a string is salted with a key the
\* interpreter draws when it starts (PYTHONHASHSEED is not set), so it is any
\* of 0, 1, 2, and the same whenever this process hashes this title again
TitleHashes(p, i) ==
    IF call.title_hash[p][i] = NotHashed THEN 0..2 ELSE {call.title_hash[p][i]}

InitSummary ==
    /\ Quiet
    /\ \E business_context \in BusinessTypes :
         call = [op |-> "create_simple_varied_summary",
                 business_context |-> business_context,
                 title_hash |-> [p \in Processes |->
                                    [i \in 1..Len(SummaryTitles) |-> NotHashed]],
                 ai_summary |-> [p \in Processes |->
                                    [i \in 1..Len(SummaryTitles) |-> ""]]]

\* process p summarises title i
RunCreateSimpleVariedSummary(p, i) ==
    /\ call.op = "create_simple_varied_summary"
    /\ \E title_hash \in TitleHashes(p, i) :
         call' = [call EXCEPT
                    !.title_hash[p][i] =
                        IF ReachesFallback(SummaryTitles[i]) THEN title_hash ELSE @,
                    !.ai_summary[p][i] =
                        CreateSimpleVariedSummary(SummaryTitles[i],
                            BusinessTermTitle(call.business_context), title_hash)]
    /\ UNCHANGED handlerVars

NextSummary ==
    \E p \in Processes, i \in 1..Len(SummaryTitles) : RunCreateSimpleVariedSummary(p, i)

SpecSummary == InitSummary /\ [][NextSummary]_vars

\* --------------------------------------- filter_posts, call after call
\* BUSINESS_MAPPINGS as the module is imported: category -> keyword list
InitialCatalog == [b \in {"Gyms / Fitness Studios"} |-> MappingKeywords(b)]

\* the titles of the posts that are scored
CatalogTexts == {1, 4, 9}

InitCatalog ==
    /\ Quiet
    /\ call = [op |-> "filter_posts_calls", catalog |-> InitialCatalog, history |-> <<>>]

\* one call of filter_posts on a post, with or without an industry_type
CallFilterPosts(i, business_type, industry_type) ==
    /\ call.op = "filter_posts_calls"
    /\ Len(call.history) < MaxCalls
    /\ LET business_keywords == ExtendedKeywords(call.catalog, business_type, industry_type)
       IN call' = [call EXCEPT
                     !.catalog = [b \in DOMAIN call.catalog |->
                                     IF b = business_type THEN business_keywords
                                     ELSE call.catalog[b]],
                     !.history = Append(@,
                         [text |-> i, business_type |-> business_type,
                          industry_type |-> industry_type,
                          relevance_score |->
                              ScoreWithKeywords(Texts[i], <<"need", "more", "clients">>,
                                                business_keywords)])]
    /\ UNCHANGED handlerVars

NextCatalog ==
    \E i \in CatalogTexts, business_type \in BusinessTypes,
       industry_type \in ScorerIndustryTypes :
        CallFilterPosts(i, business_type, industry_type)

SpecCatalog == InitCatalog /\ [][NextCatalog]_vars

\* ------------------------------------ the result cache, request after request
\* problem texts of which one ends in the text of a category and the time range
KeyQueries == {CRM, <<"x">>, <<"x">> \o Underscore \o FITNESS \o Underscore \o ALL_TIME}

\* no caller id, an account id, and an id that starts like a category
KeyUserIds == {None, <<"1">>, FITNESS \o Underscore \o ALL_TIME \o Underscore \o <<"1">>}

KeyRequests ==
    {Request(q, FITNESS, None, u, n) : q \in KeyQueries, u \in KeyUserIds, n \in {5, 15}}

NoLookup == [request |-> None, found |-> Miss]

InitCache ==
    /\ Quiet
    /\ call = [op |-> "result_cache", cache |-> <<>>, stores |-> 0, lookup |-> NoLookup]

\* cache_results as search_leads calls it with the leads computed for r
CacheResults(r) ==
    /\ call.op = "result_cache"
    /\ call.stores < MaxCalls
    /\ call' = [call EXCEPT
                  !.cache = CacheAfterStore(@, RequestKey(r), now, <<[computed_for |-> r]>>,
                                            r.result_count, 1),
                  !.stores = @ + 1]
    /\ UNCHANGED handlerVars

\* get_cached_results as search_leads calls it for r
GetCachedResults(r) ==
    /\ call.op = "result_cache"
    /\ call' = [call EXCEPT
                  !.lookup = [request |-> r,
                              found |-> CachedResult(call.cache, RequestKey(r), now)]]
    /\ UNCHANGED handlerVars

NextCache ==
    \E r \in KeyRequests :
        \/ CacheResults(r)
        \/ GetCachedResults(r)

SpecCache == InitCache /\ [][NextCache]_vars

\* ---------------------------------------------------------------- claims
\* the caller of r has an account: its id is given, parses and names a row
HasAccount(r) == Truthy(r.user_id) /\ ParseInt(r.user_id) \in AccountIds

\* the request of r fails the validation of the claim C4
InvalidInput(r) ==
    \/ r.result_count < 1
    \/ r.result_count > 150
    \/ \A i \in 1..Len(r.problem_description) : IsSpace(r.problem_description[i])
    \/ (~Truthy(r.business) /\ ~Truthy(r.industry))

\* C1: for every account, 0 <= results_used <= 150 and 0 <= posts_analyzed <= 2250
\* in every reachable state, whatever requests were accepted or rejected.
C1_UsageWithinCaps ==
    \A a \in AccountIds :
        /\ 0 <= users[a].results_used /\ users[a].results_used <= 150
        /\ 0 <= users[a].posts_analyzed /\ users[a].posts_analyzed <= 2250

\* an account at both caps, and a request of it rejected for the results limit
C1_Witness ==
    \E s \in Slots :
        /\ req[s].status = 400 /\ req[s].detail.kind = "results"
        /\ users[1].results_used = 150 /\ users[1].posts_analyzed = 2250

\* C2: the users table changes only in the commit step of a request whose caller
\* has an account, by exactly the requested count and 15 times it, whatever the
\* number of leads; and a request of such a caller that is answered 200, from
\* the cache or freshly computed, has committed exactly once.
C2_CommitOncePerRequest ==
    [][/\ \A a \in AccountIds :
            users'[a] # users[a] =>
                \E s \in Slots :
                    /\ req[s].pc = "commit" /\ req'[s].pc = "respond"
                    /\ HasAccount(req[s]) /\ ParseInt(req[s].user_id) = a
                    /\ users'[a].results_used =
                           users[a].results_used + req[s].result_count
                    /\ users'[a].posts_analyzed =
                           users[a].posts_analyzed + 15 * req[s].result_count
                    /\ req'[s].commits = req[s].commits + 1
       /\ \A s \in Slots :
            (req[s].pc = "commit" /\ req'[s].pc = "respond" /\ HasAccount(req[s]))
                => users'[ParseInt(req[s].user_id)] # users[ParseInt(req[s].user_id)]
       /\ \A s \in Slots :
            (req'[s].status = 200 /\ HasAccount(req'[s])) => req'[s].commits = 1
      ]_vars

\* a request served from the cache with fewer leads than it asked for, answered
\* 200 after its one commit
C2_Witness ==
    \E s \in Slots :
        /\ req[s].status = 200 /\ req[s].cached /\ HasAccount(req[s])
        /\ req[s].commits = 1 /\ Len(req[s].leads) < req[s].result_count

\* C3: the quota check of a caller with an account rejects the request when
\* results_used + requested > 150 or posts_analyzed + 15 * requested > 2250, and
\* only then; the figures it reports are 150 - results_used and
\* 2250 - posts_analyzed of the account at the check.
C3_QuotaRejects ==
    [][\A s \in Slots :
         (req[s].pc = "quota" /\ req'[s].pc # "quota" /\ HasAccount(req[s])) =>
            LET a == ParseInt(req[s].user_id)
                ru == users[a].results_used
                pa == users[a].posts_analyzed
                n == req[s].result_count
                over == ru + n > 150 \/ pa + 15 * n > 2250
                q == req'[s]
            IN /\ over =>
                    /\ q.pc = "done" /\ q.status = 400
                    /\ q.detail.kind \in {"results", "posts"}
                    /\ q.detail.kind = "results" <=> ru + n > 150
                    /\ q.detail.remaining =
                           IF q.detail.kind = "results" THEN 150 - ru ELSE 2250 - pa
                    /\ q.limits.remaining_results = 150 - ru
                    /\ q.limits.remaining_posts = 2250 - pa
               /\ ~over => q.pc = "lookup" /\ q.status = 0
      ]_vars

\* an account at 145 results whose request is rejected with 5 results remaining
C3_Witness ==
    \E s \in Slots :
        /\ req[s].status = 400 /\ req[s].detail.kind = "results"
        /\ req[s].user.results_used = 145 /\ req[s].detail.remaining = 5

\* C4: a request with a result count outside [1,150], a blank problem text or no
\* category is answered 400 by the validation: it never reaches the quota check,
\* the cache lookup, the fetch, the store or the commit.
C4_ValidationFirst ==
    \A s \in Slots :
        (Executing(s) /\ InvalidInput(req[s])) =>
            /\ req[s].pc \in {"validate", "done"}
            /\ req[s].did = {}
            /\ req[s].commits = 0
            /\ req[s].pc = "done" =>
                   /\ req[s].status = 400
                   /\ req[s].detail.kind \notin {"none", "results", "posts"}

\* a request for 200 results, answered 400 with nothing else done
C4_Witness ==
    \E s \in Slots :
        /\ req[s].pc = "done" /\ req[s].status = 400
        /\ req[s].result_count = 200 /\ req[s].did = {}

\* C5: no usage update is lost: every account's results_used and posts_analyzed
\* equal the sums of the requested counts and posts_needed of all its commits.
C5_NoLostUpdate ==
    \A a \in AccountIds :
        /\ users[a].results_used = committed[a].results
        /\ users[a].posts_analyzed = committed[a].posts

\* a request has committed on the account which the handler before it updated
\* while this request waited on the server; the account holds both sums
C5_Witness ==
    \E s \in Slots :
        /\ req[s].pc = "respond" /\ req[s].commits = 1 /\ req[s].overlap_commit
        /\ users[1].results_used = 150 /\ users[1].posts_analyzed = 2250

\* C6: a lookup that finds an entry older than 24 hours misses and removes it; one
\* that finds an entry of at most 24 hours returns its payload with the age
\* now - created_at and leaves the cache as it was.
C6_CacheTtl ==
    [][\A s \in Slots :
         (/\ req[s].pc = "lookup_read" /\ req'[s].pc # "lookup_read"
          /\ RequestKey(req[s]) \in DOMAIN cache) =>
            LET key == RequestKey(req[s])
                age == now - cache[key].timestamp
            IN IF age > 24
               THEN /\ req'[s].pc = "fresh" /\ ~req'[s].cached
                    /\ key \notin DOMAIN cache'
               ELSE /\ req'[s].cached
                    /\ req'[s].leads = cache[key].results
                    /\ req'[s].result_age_hours = age
                    /\ cache' = cache
      ]_vars

\* a hit on an entry exactly 24 hours old
C6_Witness ==
    \E s \in Slots : req[s].cached /\ req[s].result_age_hours = 24

\* C7: the key of a request differs from the key of the same request with any
\* other count that is asked for; the store of a request creates the entry of its
\* own key and count and leaves every other entry, those of the other counts
\* among them, as it was; a hit returns an entry stored for the request's own count.
C7_CountInKey ==
    [][\A s \in Slots :
         /\ (req[s].pc = "fresh" /\ req'[s].pc = "commit") =>
               /\ \A n \in {q.result_count : q \in ValidRequests} \ {req[s].result_count} :
                     LET other == RequestKey([req[s] EXCEPT !.result_count = n])
                     IN /\ other # RequestKey(req[s])
                        /\ other \in DOMAIN cache <=> other \in DOMAIN cache'
                        /\ other \in DOMAIN cache => cache'[other] = cache[other]
               /\ cache'[RequestKey(req[s])].for_count = req[s].result_count
               /\ \A k \in (DOMAIN cache \cup DOMAIN cache') \ {RequestKey(req[s])} :
                     k \in DOMAIN cache /\ k \in DOMAIN cache' /\ cache'[k] = cache[k]
         /\ (~req[s].cached /\ req'[s].cached) =>
               cache[RequestKey(req[s])].for_count = req[s].result_count
      ]_vars

\* the same query of the same caller is cached once for 5 and once for 145 results
C7_Witness ==
    \E s \in Slots :
        /\ req[s].pc = "commit" /\ "store" \in req[s].did /\ req[s].result_count = 145
        /\ RequestKey(req[s]) \in DOMAIN cache
        /\ RequestKey([req[s] EXCEPT !.result_count = 5]) \in DOMAIN cache
        /\ cache[RequestKey([req[s] EXCEPT !.result_count = 5])].for_count = 5

\* C8: a cache entry is created or replaced only by the store of a request whose
\* lookup missed and whose pipeline run did not fail.
C8_StoreOnlyAfterSuccess ==
    [][\A k \in DOMAIN cache' :
         (k \notin DOMAIN cache \/ cache'[k] # cache[k]) =>
            \E s \in Slots :
                /\ req[s].pc = "fresh" /\ req'[s].pc = "commit"
                /\ RequestKey(req[s]) = k
                /\ ~req'[s].raised
      ]_vars

\* C9: no step removes or replaces a cache entry that is at most 24 hours old,
\* and no lookup fails on an entry that went away between its membership test
\* and its read.
C9_NoEntryLost ==
    [][/\ \A k \in DOMAIN cache :
            now - cache[k].timestamp <= 24 =>
                k \in DOMAIN cache' /\ cache'[k] = cache[k]
       /\ \A s \in Slots : req'[s].detail.kind # "KeyError"
      ]_vars

\* a request hits the entry which the handler before it stored while this
\* request waited on the server
C9_Witness ==
    \E s \in Slots : req[s].cached /\ req[s].overlap_store /\ req[s].status = 200

\* C10: a request without a caller id, or with one that names no account, is not
\* rejected for quota, does not commit, leaves the users table as it was and is
\* answered with 150 results and 2250 posts remaining.
C10_AnonymousBypass ==
    [][/\ \A s \in Slots :
            (req'[s].pc # "idle" /\ ~HasAccount(req'[s])) =>
                /\ req'[s].status = 400 => req'[s].detail.kind \notin {"results", "posts"}
                /\ "commit" \notin req'[s].did
                /\ req'[s].commits = 0
                /\ req'[s].status = 200 =>
                       /\ req'[s].results_remaining = 150
                       /\ req'[s].posts_remaining = 2250
       /\ (\A s \in Slots : req[s].pc # "idle" => ~HasAccount(req[s])) => users' = users
      ]_vars

\* callers without an account are served while the account is used up
C10_Witness ==
    \E s \in Slots :
        /\ req[s].status = 200 /\ req[s].user_id = <<"7">>
        /\ req[s].results_remaining = 150 /\ req[s].posts_remaining = 2250
        /\ users[1].results_used = 150

\* C23: every account, starting at zero usage, has posts_analyzed = 15 *
\* results_used whatever requests were served, and no request is ever rejected
\* for the posts limit.
C23_PostsFifteenPerResult ==
    /\ \A a \in AccountIds : users[a].posts_analyzed = 15 * users[a].results_used
    /\ \A s \in Slots : req[s].detail.kind # "posts"

\* a request that passed the quota check on an account with usage is answered
\* after its commit, and the account holds 15 posts per result
C23_Witness ==
    \E s \in Slots :
        /\ req[s].status = 200 /\ HasAccount(req[s]) /\ req[s].commits = 1
        /\ req[s].user.results_used > 0
        /\ users[1].results_used = req[s].user.results_used + req[s].result_count
        /\ users[1].posts_analyzed = 15 * users[1].results_used

\* C24: from its quota check to its commit a request of an account sees the
\* usage figures the check read: no other request of the account checks or
\* commits in between, and the commit stays within both caps.
C24_CheckHoldsUntilCommit ==
    \A s \in Slots :
        (req[s].pc \in {"lookup", "lookup_read", "fresh", "commit"} /\ HasAccount(req[s])) =>
            LET a == ParseInt(req[s].user_id)
            IN /\ users[a].results_used = req[s].user.results_used
               /\ users[a].posts_analyzed = req[s].user.posts_analyzed
               /\ users[a].results_used + req[s].result_count <= 150
               /\ users[a].posts_analyzed + req[s].posts_needed <= 2250
               /\ \A t \in Slots \ {s} :
                     (HasAccount(req[t]) /\ ParseInt(req[t].user_id) = a)
                         => req[t].pc \notin {"quota", "lookup", "lookup_read", "fresh",
                                             "commit"}

\* a request for the last 145 results is about to commit; it arrived while the
\* request before it was committing 5 on the same account
C24_Witness ==
    \E s \in Slots :
        /\ req[s].pc = "commit" /\ HasAccount(req[s]) /\ req[s].overlap_commit
        /\ req[s].user.results_used = 5 /\ req[s].result_count = 145

\* C26: a request rejected by the quota check has no effect: it ends there with
\* its 400, the account's usage is what the check read, and it did no cache
\* lookup, no fetch, no store, no commit and wrote no audit row.
C26_RejectionHasNoEffect ==
    \A s \in Slots :
        (HasAccount(req[s]) /\ "quota" \in req[s].did /\ ~req[s].limits.is_valid) =>
            LET a == ParseInt(req[s].user_id)
            IN /\ req[s].pc = "done" /\ req[s].status = 400
               /\ req[s].did = {"quota"} /\ req[s].commits = 0
               /\ ~req[s].cached /\ req[s].leads = <<>>
               /\ users[a].results_used = req[s].user.results_used
               /\ users[a].posts_analyzed = req[s].user.posts_analyzed

\* a request for 145 results is rejected on an account that used 10, and
\* nothing is cached under its key
C26_Witness ==
    \E s \in Slots :
        /\ req[s].status = 400 /\ req[s].detail.kind = "results" /\ req[s].did = {"quota"}
        /\ req[s].result_count = 145 /\ req[s].user.results_used = 10
        /\ users[1].results_used = 10 /\ RequestKey(req[s]) \notin DOMAIN cache

C28_AdmittedRequestSucceeds ==
    \A s \in Slots :
        (req[s].pc = "done" /\ "quota" \in req[s].did /\ req[s].limits.is_valid)
            => req[s].status = 200

\* ---------------------------------------------- claims about filter_posts
\* the call of filter_posts has returned
FilterDone == call.op = "filter_posts" /\ call.done

\* the score of a post of the call's batch under the call's problem and business
CallScore(p) == RelevanceScore(p.text, call.problem_description, call.business_type)

\* the place of the post with this id in the call's batch
PositionOf(id) == CHOOSE i \in 1..Len(call.posts) : call.posts[i].id = id

\* the post has a title
HasTitle(p) == p.text.title # None

\* C11: every lead of the output carries a score of at least the threshold, the
\* score of its post; no post that scores below the threshold has a lead.
C11_ThresholdConsistency ==
    (FilterDone /\ ~call.result.raised) =>
        /\ \A i \in 1..Len(call.result.leads) :
              /\ call.result.leads[i].ai_relevance_score >= AI_RELEVANCE_THRESHOLD
              /\ \E p \in Range(call.posts) :
                    /\ p.id = call.result.leads[i].id
                    /\ CallScore(p) = call.result.leads[i].ai_relevance_score
        /\ \A p \in Range(call.posts) :
              CallScore(p) < AI_RELEVANCE_THRESHOLD =>
                  \A i \in 1..Len(call.result.leads) : call.result.leads[i].id # p.id

\* a batch of which one post is returned and one with a score of 1..4 is left out
C11_Witness ==
    /\ FilterDone /\ Len(call.result.leads) > 0
    /\ \E p \in Range(call.posts) : CallScore(p) > 0 /\ CallScore(p) < AI_RELEVANCE_THRESHOLD

\* C12: the leads are in non-increasing order of score, and leads of equal score
\* are in the order their posts had in the batch.
C12_RankedStable ==
    FilterDone =>
        \A i, j \in 1..Len(call.result.leads) :
            i < j =>
                /\ call.result.leads[i].ai_relevance_score
                       >= call.result.leads[j].ai_relevance_score
                /\ call.result.leads[i].ai_relevance_score
                       = call.result.leads[j].ai_relevance_score
                   => PositionOf(call.result.leads[i].id) < PositionOf(call.result.leads[j].id)

\* three leads: two of equal score, and one that the ranking moved ahead of a
\* post that came before it in the batch
C12_Witness ==
    /\ FilterDone /\ Len(call.result.leads) = 3
    /\ \E i, j \in 1..3 :
          /\ i < j
          /\ call.result.leads[i].ai_relevance_score = call.result.leads[j].ai_relevance_score
    /\ \E i, j \in 1..3 :
          /\ i < j
          /\ PositionOf(call.result.leads[i].id) > PositionOf(call.result.leads[j].id)

\* C13: a response carries at most min(result_count, number of candidates the
\* filter admitted) leads, whether its leads were filtered by this request or
\* read from the cache; the same holds of every stored entry.
C13_ReturnedAtMostRequested ==
    /\ \A s \in Slots :
          req[s].pc \in {"commit", "respond", "done"} /\ req[s].status \in {0, 200}
              => Len(req[s].leads) <= Min(req[s].result_count, req[s].admitted)
    /\ \A k \in DOMAIN cache :
          Len(cache[k].results) <= Min(cache[k].for_count, cache[k].admitted)

\* a fresh response cut to the 5 leads asked for out of more candidates is
\* followed by a response of 5 leads read from the cache
C13_Witness ==
    \E s \in Slots :
        /\ req[s].pc = "done" /\ req[s].status = 200 /\ req[s].cached
        /\ "fetch" \notin req[s].did
        /\ Len(req[s].leads) = req[s].result_count
        /\ req[s].result_count < req[s].admitted

\* C14: a post whose scoring raises is skipped: the leads are those of the batch
\* without the failing posts.
C14_FailingPostSkipped ==
    (FilterDone /\ call.problem_description # None) =>
        call.result.leads =
            FilterPosts(ScorePosts(SelectSeq(call.posts, HasTitle),
                                   call.problem_description, call.business_type)).leads

\* C15 as stated: an exception in the setup does not leave filter_posts, which
\* returns no leads and metrics that are all zero.
C15_SetupFailureZeroedMetrics ==
    (FilterDone /\ call.problem_description = None) =>
        /\ ~call.result.propagated
        /\ call.result.leads = <<>>
        /\ call.result.metrics.posts_analyzed = 0
        /\ call.result.metrics.posts_filtered = 0

\* C15 as amended: an exception in the setup does not leave filter_posts, which
\* returns no leads and the metrics as they were reset: posts_filtered = 0 and
\* posts_analyzed = the number of posts passed in.
C15_SetupFailureResetMetrics ==
    (FilterDone /\ call.problem_description = None) =>
        /\ ~call.result.propagated
        /\ call.result.leads = <<>>
        /\ call.result.metrics.posts_analyzed = Len(call.posts)
        /\ call.result.metrics.posts_filtered = 0

\* the setup fails on a batch of three posts that would have given leads
C15_Witness ==
    /\ FilterDone /\ call.problem_description = None
    /\ Len(call.posts) = 3 /\ call.result.raised
    /\ \E p \in Range(call.posts) :
          RelevanceScore(p.text, <<"grow">>, call.business_type) >= AI_RELEVANCE_THRESHOLD

\* C16: on an empty batch filter_posts returns no leads, without an exception
\* raised or caught, and metrics with posts_analyzed = 0 and posts_filtered = 0.
C16_EmptyBatch ==
    (FilterDone /\ call.posts = <<>> /\ call.problem_description # None) =>
        /\ call.result.leads = <<>>
        /\ ~call.result.raised /\ ~call.result.propagated
        /\ call.result.metrics.posts_analyzed = 0
        /\ call.result.metrics.posts_filtered = 0

\* filter_posts has returned from a call with an empty batch
C16_Witness ==
    /\ FilterDone /\ call.posts = <<>> /\ call.problem_description # None
    /\ call.business_type = "Gyms / Fitness Studios"

\* the text recounts a success: a success-story phrase, an amount of money, and no
\* struggle indicator of the filter or of the scorer
SuccessStory(text) ==
    /\ \E f \in 1..Len(success_story_patterns) :
          success_story_patterns[f] \cap text.mentions # {}
    /\ text.currency
    /\ struggle_indicators \cap text.mentions = {}
    /\ (high_urgency \cup medium_urgency) \cap text.mentions = {}
    /\ \A f \in 1..Len(active_struggle_patterns) :
          active_struggle_patterns[f] \cap text.mentions = {}

\* C19: no lead of the output is the post of a success story.
C19_SuccessStoryExcluded ==
    FilterDone =>
        \A p \in Range(call.posts) :
            SuccessStory(p.text) =>
                \A i \in 1..Len(call.result.leads) : call.result.leads[i].id # p.id

\* C21: filter_posts leaves the fetched posts as they were: after the call every
\* post of the batch has the fields and values it had before.
C21_PostsReadOnly ==
    FilterDone => call.post_dicts = call.posts

\* C22: a phrase in the body of a fetched post counts as it would in the title:
\* the score of every post is the score of its title and body taken together.
C22_BodyIsScored ==
    (FilterDone /\ ~call.result.raised) =>
        \A i \in 1..Len(call.posts) :
            call.post_dicts[i].relevance_score =
                RelevanceScore([title |-> call.posts[i].text.title,
                                mentions |-> call.posts[i].text.mentions
                                             \cup call.posts[i].selftext.mentions,
                                currency |-> FALSE],
                               call.problem_description, call.business_type)

\* C30: the relevance score of every lead filter_posts returns is within 0..100.
C30_LeadScoreInRange ==
    FilterDone =>
        \A i \in 1..Len(call.result.leads) :
            call.result.leads[i].ai_relevance_score \in 0..100

\* ---------------------------------- claims about analyze_post_relevance
ScoreDone == call.op = "analyze_post_relevance" /\ call.done

\* round(): to the nearest whole number, a half to the even one
Round(a, b) ==
    LET q == a \div b
        r == a % b
    IN IF 2 * r < b THEN q
       ELSE IF 2 * r > b THEN q + 1
       ELSE IF q % 2 = 0 THEN q ELSE q + 1

\* C17: for every post, keyword list and category, in both scoring modes, the
\* four scores analyze_post_relevance returns are within 0..100.
C17_ScoresInRange ==
    ScoreDone =>
        /\ call.result.keyword_match \in 0..100
        /\ call.result.struggle_detection \in 0..100
        /\ call.result.business_relevance \in 0..100
        /\ call.result.overall_score \in 0..100

\* the improved scorer on a success story: the penalties outweigh the boosts and
\* the struggle score is held at 0
C17_Witness ==
    /\ ScoreDone
    /\ call.post.is_dict /\ call.use_improved_scoring
    /\ StruggleSum(call.post.text, TRUE) < 0
    /\ call.result.struggle_detection = 0
    /\ call.result.keyword_match > 0

\* C18: the keyword-match score is min(100, round(100 * matched_count /
\* total_keywords)) with matched_count the number of distinct supplied keywords
\* found in the text, and 0 when no keyword is supplied.
C18_KeywordMatchRounded ==
    (ScoreDone /\ call.post.is_dict) =>
        call.result.keyword_match =
            IF Len(call.keywords) = 0 THEN 0
            ELSE Min(100, Round(100 * Cardinality(Range(call.keywords)
                                                  \cap call.post.text.mentions),
                                Len(call.keywords)))

\* ------------------------------------- claims about the fallback summary
\* C20: the summary chosen for a title is a function of the title alone: two
\* processes that have summarised the same title have chosen the same template.
C20_SameTemplateInEveryProcess ==
    call.op = "create_simple_varied_summary" =>
        \A p \in Processes, q \in Processes, i \in 1..Len(SummaryTitles) :
            (call.ai_summary[p][i] # "" /\ call.ai_summary[q][i] # "")
                => call.ai_summary[p][i] = call.ai_summary[q][i]

\* --------------------------------------- claims about the keyword catalog
\* C29: filter_posts never changes the keyword catalog, and a call repeated with
\* the same arguments gives the post the same score.
C29_CatalogNeverChanges ==
    call.op = "filter_posts_calls" =>
        /\ call.catalog = InitialCatalog
        /\ \A m \in 1..Len(call.history), n \in 1..Len(call.history) :
              ( /\ call.history[m].text = call.history[n].text
                /\ call.history[m].business_type = call.history[n].business_type
                /\ call.history[m].industry_type = call.history[n].industry_type )
                  => call.history[m].relevance_score = call.history[n].relevance_score

\* ----------------------------------------------- claims about the result cache
\* C25: two requests that differ in the problem text, the category, the caller
\* id or the requested count never share a cache entry: a lookup returns only
\* leads that were stored for the same four parameters.
C25_LookupReturnsOwnEntry ==
    (call.op = "result_cache" /\ call.lookup.found.hit) =>
        call.lookup.found.results[1].computed_for = call.lookup.request

====
